---- MODULE Spec2Model ----
(***************************************************************************)
(* The V4L2 capture backend of nokhwa (src/backends/capture/v4l2.rs):      *)
(* the capture session V4LCaptureDevice, its format transaction            *)
(* set_camera_format, the three field mutators and                         *)
(* init_camera_format_default, over a model of the OS device whose calls   *)
(* may each succeed or fail.                                               *)
(***************************************************************************)
EXTENDS Integers, Sequences, FiniteSets, TLC

\* Bounds of the input space: resolutions 0x0 .. 640*MaxResIdx x 480*MaxResIdx,
\* framerates 0 .. 15*MaxFpsIdx.
MaxResIdx == 1
MaxFpsIdx == 1
\* Bound on the callers that share one session.
MaxCallers == 2

-----------------------------------------------------------------------------
\* Option<T>: None is the empty sequence, Some(x) the one-element sequence.
None == <<>>
Some(x) == <<x>>
is_some(opt) == opt # None
Unwrap(opt) == opt[1]

-----------------------------------------------------------------------------
\* The format model (utils::CameraFormat, Resolution, FrameFormat).
FrameFormats == {"MJPEG", "YUYV"}
ResolutionNew(x, y) == [width_x |-> x, height_y |-> y]
Resolutions == {ResolutionNew(640 * i, 480 * i) : i \in 0..MaxResIdx}
Framerates == {15 * i : i \in 0..MaxFpsIdx}
CameraFormatNew(res, fmt, fps) == [resolution |-> res, format |-> fmt, framerate |-> fps]
CameraFormats == {CameraFormatNew(r, e, n) : r \in Resolutions, e \in FrameFormats, n \in Framerates}
\* CameraFormat::default(): the system default, with a framerate > 0.
CameraFormatDefault == CameraFormatNew(ResolutionNew(640, 480), "MJPEG", 15)

\* impl From<CameraFormat> for Format: the four-character code by a total match,
\* width and height copied, the framerate dropped.
FourCC(frame_format) == IF frame_format = "MJPEG" THEN "MJPG" ELSE "YUYV"
FormatFrom(cam_fmt) ==
    [width |-> cam_fmt.resolution.width_x,
     height |-> cam_fmt.resolution.height_y,
     fourcc |-> FourCC(cam_fmt.format)]
\* Parameters::with_fps(fps): the frame interval 1/fps.
ParametersWithFps(fps) == [interval |-> <<1, fps>>]

\* The OS-native values the device can hold.
Formats == {FormatFrom(f) : f \in CameraFormats}
Parameterss == {ParametersWithFps(n) : n \in Framerates}

\* to_string() of the OS-native values, as carried by CouldntSetProperty.value.
FormatToString(format) == <<"Format", format.width, format.height, format.fourcc>>
ParametersToString(params) == <<"Parameters", params.interval[1], params.interval[2]>>

-----------------------------------------------------------------------------
\* NokhwaError and Result<(), NokhwaError>. A property string is the sequence
\* of its parts; the undo marker, when present, is its first part.
UndoMarker == "Attempt undo due to stream acquisition failure."
Ok == [kind |-> "Ok"]
CouldntQueryDevice(property) == [kind |-> "CouldntQueryDevice", property |-> property]
CouldntSetProperty(property, value) ==
    [kind |-> "CouldntSetProperty", property |-> property, value |-> value]
CouldntOpenStream == [kind |-> "CouldntOpenStream"]
Panic == [kind |-> "Panic"]

-----------------------------------------------------------------------------
\* The OS device. Each OS call a handler issues succeeds or fails as the OS
\* decides at that moment, so a handler has a set of possible outcomes.
OsResults == BOOLEAN

\* One OS call issued by a handler, as logged: its name, argument and outcome.
OsCall(name, arg, ok) == [name |-> name, arg |-> arg, ok |-> ok]

\* VIDIOC_S_FMT / VIDIOC_S_PARM: on success the device holds the value, on
\* failure it is unchanged.
DeviceSetFormat(device, format, ok) ==
    IF ok THEN [device EXCEPT !.format = format] ELSE device
DeviceSetParams(device, params, ok) ==
    IF ok THEN [device EXCEPT !.params = params] ELSE device

\* MmapStream::new(&device, VideoCapture): a new handle on the device as it is
\* configured at that moment, distinct from the handle still held.
MmapStreamNew(held) == [id |-> IF is_some(held) THEN 1 - Unwrap(held).id ELSE 0]

-----------------------------------------------------------------------------
VARIABLES
    camera_format,   \* Option<CameraFormat>: the cached format
    stream_handle,   \* Option<MmapStream>
    device,          \* the OS-level configuration of the Device
    last,            \* the last call: operation, kind of result, and the OS
                     \* calls it issued with their outcomes
    last_ok,         \* history: argument of the last set_camera_format that returned Ok
    pending,         \* history: the cached value, while it is one a mutator stored
                     \* without a transaction
    set_issued,      \* history: some OS set call has been issued
    running          \* per caller: the set_camera_format call it is inside, with
                     \* the number of OS calls it has issued so far; None outside

vars == <<camera_format, stream_handle, device, last, last_ok, pending,
          set_issued, running>>

\* The fields of V4LCaptureDevice a handler reads and writes (camera_info is
\* immutable and not modelled).
Self == [camera_format |-> camera_format, stream_handle |-> stream_handle,
         device |-> device]

\* What a handler returns: the session after it, its result, the OS calls it
\* issued in order, and the argument of the set_camera_format call it made
\* (None when it made none).
Return(self, result, calls, txn) ==
    [self |-> self, result |-> result, calls |-> calls, txn |-> txn]

-----------------------------------------------------------------------------
\* A variant of commit that returns Ok without writing the cache.
commit_keep_cache(self, new_fmt, calls) ==
    Return(self, Ok, calls, Some(new_fmt))

\* set_camera_format, lines 160-161: the cache is written and Ok returned.
commit(self, new_fmt, calls) ==
    Return([self EXCEPT !.camera_format = Some(new_fmt)], Ok, calls, Some(new_fmt))

\* A variant of undo_params that drops the stream handle once the rollback
\* has succeeded.
undo_params_close_stream(self, prev_fps, new_fmt, calls) ==
    { LET c == Append(calls, OsCall("set_params", prev_fps, ok))
          d == DeviceSetParams(self.device, prev_fps, ok)
      IN  IF ~ok
          THEN Return([self EXCEPT !.device = d],
                      CouldntSetProperty(<<UndoMarker, "Framerate">>,
                                         ParametersToString(prev_fps)),
                      c, Some(new_fmt))
          ELSE Return([self EXCEPT !.device = d, !.stream_handle = None],
                      CouldntOpenStream, c, Some(new_fmt))
      : ok \in OsResults }

\* set_camera_format, lines 145-155: the second step of the undo, the
\* snapshot's parameters; then CouldntOpenStream for the failure that began it.
undo_params(self, prev_fps, new_fmt, calls) ==
    { LET c == Append(calls, OsCall("set_params", prev_fps, ok))
          d == DeviceSetParams(self.device, prev_fps, ok)
      IN  IF ~ok
          THEN Return([self EXCEPT !.device = d],
                      CouldntSetProperty(<<UndoMarker, "Framerate">>,
                                         ParametersToString(prev_fps)),
                      c, Some(new_fmt))
          ELSE Return([self EXCEPT !.device = d], CouldntOpenStream, c, Some(new_fmt))
      : ok \in OsResults }

\* A variant of undo that re-applies the format the device holds (the new
\* one) instead of the snapshot.
undo_reapply_new(self, prev_format, prev_fps, new_fmt, calls) ==
    UNION { LET c == Append(calls, OsCall("set_format", self.device.format, ok))
                d == DeviceSetFormat(self.device, self.device.format, ok)
            IN  IF ~ok
                THEN {Return([self EXCEPT !.device = d],
                             CouldntSetProperty(<<UndoMarker, "Resolution, FrameFormat">>,
                                                FormatToString(self.device.format)),
                             c, Some(new_fmt))}
                ELSE undo_params([self EXCEPT !.device = d], prev_fps, new_fmt, c)
            : ok \in OsResults }

\* A variant of undo that reports the stream error when the first rollback
\* set call fails.
undo_stream_error(self, prev_format, prev_fps, new_fmt, calls) ==
    UNION { LET c == Append(calls, OsCall("set_format", prev_format, ok))
                d == DeviceSetFormat(self.device, prev_format, ok)
            IN  IF ~ok
                THEN {Return([self EXCEPT !.device = d], CouldntOpenStream, c,
                             Some(new_fmt))}
                ELSE undo_params([self EXCEPT !.device = d], prev_fps, new_fmt, c)
            : ok \in OsResults }

\* set_camera_format, lines 136-156: the undo after a failed stream
\* acquisition. The snapshot is re-applied, format first; a failing set call
\* returns its own error. Every path returns before the assignment of line
\* 133 takes place, so the handle held is the one held before.
undo(self, prev_format, prev_fps, new_fmt, calls) ==
    UNION { LET c == Append(calls, OsCall("set_format", prev_format, ok))
                d == DeviceSetFormat(self.device, prev_format, ok)
            IN  IF ~ok
                THEN {Return([self EXCEPT !.device = d],
                             CouldntSetProperty(<<UndoMarker, "Resolution, FrameFormat">>,
                                                FormatToString(prev_format)),
                             c, Some(new_fmt))}
                ELSE undo_params([self EXCEPT !.device = d], prev_fps, new_fmt, c)
            : ok \in OsResults }

\* A variant of recreate_stream that keeps the old handle when the new stream
\* has been created.
recreate_stream_keep_old(self, prev_format, prev_fps, new_fmt, calls) ==
    IF is_some(self.stream_handle)
    THEN UNION { LET c == Append(calls, OsCall("MmapStream::new", None, ok))
                 IN  IF ok
                     THEN {commit(self, new_fmt, c)}
                     ELSE undo(self, prev_format, prev_fps, new_fmt, c)
                 : ok \in OsResults }
    ELSE {commit(self, new_fmt, calls)}

\* A variant of recreate_stream that creates the stream whether or not one
\* is held.
recreate_stream_always(self, prev_format, prev_fps, new_fmt, calls) ==
    UNION { LET c == Append(calls, OsCall("MmapStream::new", None, ok))
            IN  IF ok
                THEN {commit([self EXCEPT !.stream_handle =
                                    Some(MmapStreamNew(self.stream_handle))],
                             new_fmt, c)}
                ELSE undo(self, prev_format, prev_fps, new_fmt, c)
            : ok \in OsResults }

\* A variant of recreate_stream that writes the cache before the new stream
\* is created.
recreate_stream_cache_first(self, prev_format, prev_fps, new_fmt, calls) ==
    IF is_some(self.stream_handle)
    THEN UNION { LET c == Append(calls, OsCall("MmapStream::new", None, ok))
                     cached == [self EXCEPT !.camera_format = Some(new_fmt)]
                 IN  IF ok
                     THEN {commit([cached EXCEPT !.stream_handle =
                                         Some(MmapStreamNew(self.stream_handle))],
                                  new_fmt, c)}
                     ELSE undo(cached, prev_format, prev_fps, new_fmt, c)
                 : ok \in OsResults }
    ELSE {commit(self, new_fmt, calls)}

\* set_camera_format, lines 132-159: with a stream held, a new one is created
\* on the reconfigured device and replaces it; without one, nothing is created.
recreate_stream(self, prev_format, prev_fps, new_fmt, calls) ==
    IF is_some(self.stream_handle)
    THEN UNION { LET c == Append(calls, OsCall("MmapStream::new", None, ok))
                 IN  IF ok
                     THEN {commit([self EXCEPT !.stream_handle =
                                         Some(MmapStreamNew(self.stream_handle))],
                                  new_fmt, c)}
                     ELSE undo(self, prev_format, prev_fps, new_fmt, c)
                 : ok \in OsResults }
    ELSE {commit(self, new_fmt, calls)}

\* A variant of apply_framerate that re-applies the snapshot's format before
\* it returns the failure.
apply_framerate_restore_format(self, prev_format, prev_fps, new_fmt, calls) ==
    UNION { LET framerate == ParametersWithFps(new_fmt.framerate)
                c == Append(calls, OsCall("set_params", framerate, ok))
                d == DeviceSetParams(self.device, framerate, ok)
            IN  IF ~ok
                THEN {Return([self EXCEPT !.device = DeviceSetFormat(d, prev_format, TRUE)],
                             CouldntSetProperty(<<"Framerate">>,
                                                ParametersToString(framerate)),
                             Append(c, OsCall("set_format", prev_format, TRUE)),
                             Some(new_fmt))}
                ELSE recreate_stream([self EXCEPT !.device = d], prev_format, prev_fps,
                                     new_fmt, c)
            : ok \in OsResults }

\* set_camera_format, lines 124-130: the new framerate is applied; a failure
\* returns at once.
apply_framerate(self, prev_format, prev_fps, new_fmt, calls) ==
    UNION { LET framerate == ParametersWithFps(new_fmt.framerate)
                c == Append(calls, OsCall("set_params", framerate, ok))
                d == DeviceSetParams(self.device, framerate, ok)
            IN  IF ~ok
                THEN {Return([self EXCEPT !.device = d],
                             CouldntSetProperty(<<"Framerate">>,
                                                ParametersToString(framerate)),
                             c, Some(new_fmt))}
                ELSE recreate_stream([self EXCEPT !.device = d], prev_format, prev_fps,
                                     new_fmt, c)
            : ok \in OsResults }

\* A variant of apply_format that writes the cache before the OS has accepted
\* the format.
apply_format_cache_first(self, prev_format, prev_fps, new_fmt, calls) ==
    UNION { LET format == FormatFrom(new_fmt)
                c == Append(calls, OsCall("set_format", format, ok))
                d == DeviceSetFormat(self.device, format, ok)
                cached == [self EXCEPT !.device = d, !.camera_format = Some(new_fmt)]
            IN  IF ~ok
                THEN {Return(cached,
                             CouldntSetProperty(<<"Resolution, FrameFormat">>,
                                                FormatToString(format)),
                             c, Some(new_fmt))}
                ELSE apply_framerate(cached, prev_format, prev_fps, new_fmt, c)
            : ok \in OsResults }

\* A variant of apply_format that tries the format a second time when the OS
\* has refused it.
apply_format_retry(self, prev_format, prev_fps, new_fmt, calls) ==
    UNION { LET format == FormatFrom(new_fmt)
                c == Append(calls, OsCall("set_format", format, ok))
                d == DeviceSetFormat(self.device, format, ok)
            IN  IF ok
                THEN apply_framerate([self EXCEPT !.device = d], prev_format, prev_fps,
                                     new_fmt, c)
                ELSE UNION { LET c2 == Append(c, OsCall("set_format", format, ok2))
                                 d2 == DeviceSetFormat(d, format, ok2)
                             IN  IF ~ok2
                                 THEN {Return([self EXCEPT !.device = d2],
                                              CouldntSetProperty(<<"Resolution, FrameFormat">>,
                                                                 FormatToString(format)),
                                              c2, Some(new_fmt))}
                                 ELSE apply_framerate([self EXCEPT !.device = d2],
                                                      prev_format, prev_fps, new_fmt, c2)
                             : ok2 \in OsResults }
            : ok \in OsResults }

\* set_camera_format, lines 114-123: the new format is applied; a failure
\* returns at once.
apply_format(self, prev_format, prev_fps, new_fmt, calls) ==
    UNION { LET format == FormatFrom(new_fmt)
                c == Append(calls, OsCall("set_format", format, ok))
                d == DeviceSetFormat(self.device, format, ok)
            IN  IF ~ok
                THEN {Return([self EXCEPT !.device = d],
                             CouldntSetProperty(<<"Resolution, FrameFormat">>,
                                                FormatToString(format)),
                             c, Some(new_fmt))}
                ELSE apply_framerate([self EXCEPT !.device = d], prev_format, prev_fps,
                                     new_fmt, c)
            : ok \in OsResults }

\* A variant of snapshot_fps that reports a failed parameters query under the
\* property of the format query.
snapshot_fps_format_property(self, prev_format, new_fmt, calls) ==
    UNION { LET c == Append(calls, OsCall("params", None, ok))
            IN  IF ~ok
                THEN {Return(self, CouldntQueryDevice(<<"Resolution, FrameFormat">>), c,
                             Some(new_fmt))}
                ELSE apply_format(self, prev_format, self.device.params, new_fmt, c)
            : ok \in OsResults }

\* set_camera_format, lines 104-112: the snapshot of the device's parameters.
snapshot_fps(self, prev_format, new_fmt, calls) ==
    UNION { LET c == Append(calls, OsCall("params", None, ok))
            IN  IF ~ok
                THEN {Return(self, CouldntQueryDevice(<<"Framerate">>), c, Some(new_fmt))}
                ELSE apply_format(self, prev_format, self.device.params, new_fmt, c)
            : ok \in OsResults }

\* set_camera_format, lines 94-162; lines 95-103 take the snapshot of the
\* device's format.
set_camera_format(self, new_fmt) ==
    UNION { LET c == <<OsCall("format", None, ok)>>
            IN  IF ~ok
                THEN {Return(self, CouldntQueryDevice(<<"Resolution, FrameFormat">>), c,
                             Some(new_fmt))}
                ELSE snapshot_fps(self, self.device.format, new_fmt, c)
            : ok \in OsResults }

\* A variant of init_camera_format_default that leaves a cached format alone
\* whatever overwrite is.
init_camera_format_default_keep_cached(self, overwrite) ==
    IF is_some(self.camera_format)
    THEN {Return(self, Ok, <<>>, None)}
    ELSE set_camera_format(self, CameraFormatDefault)

\* A variant of init_camera_format_default that ignores overwrite.
init_camera_format_default_always(self, overwrite) ==
    set_camera_format(self, CameraFormatDefault)

\* init_camera_format_default, lines 82-92.
init_camera_format_default(self, overwrite) ==
    IF is_some(self.camera_format)
    THEN IF overwrite
         THEN set_camera_format(self, CameraFormatDefault)
         ELSE {Return(self, Ok, <<>>, None)}
    ELSE set_camera_format(self, CameraFormatDefault)

\* A variant of set_resolution that builds the new format from the minimal
\* defaults instead of the cached format.
set_resolution_from_minimal(self, new_res) ==
    IF is_some(self.camera_format)
    THEN set_camera_format(self, CameraFormatNew(new_res, "MJPEG", 0))
    ELSE {Return([self EXCEPT !.camera_format = Some(CameraFormatNew(new_res, "MJPEG", 0))],
                 Ok, <<>>, None)}

\* set_resolution, lines 169-178.
set_resolution(self, new_res) ==
    IF is_some(self.camera_format)
    THEN set_camera_format(self, [Unwrap(self.camera_format) EXCEPT !.resolution = new_res])
    ELSE {Return([self EXCEPT !.camera_format = Some(CameraFormatNew(new_res, "MJPEG", 0))],
                 Ok, <<>>, None)}

\* A variant of set_framerate whose pending value starts from the system
\* default instead of the minimal defaults.
set_framerate_from_default(self, new_fps) ==
    IF is_some(self.camera_format)
    THEN set_camera_format(self, [Unwrap(self.camera_format) EXCEPT !.framerate = new_fps])
    ELSE {Return([self EXCEPT !.camera_format =
                        Some([CameraFormatDefault EXCEPT !.framerate = new_fps])],
                 Ok, <<>>, None)}

\* set_framerate, lines 185-198.
set_framerate(self, new_fps) ==
    IF is_some(self.camera_format)
    THEN set_camera_format(self, [Unwrap(self.camera_format) EXCEPT !.framerate = new_fps])
    ELSE {Return([self EXCEPT !.camera_format =
                        Some(CameraFormatNew(ResolutionNew(0, 0), "MJPEG", new_fps))],
                 Ok, <<>>, None)}

\* set_frameformat, lines 205-214.
set_frameformat(self, fourcc) ==
    IF is_some(self.camera_format)
    THEN set_camera_format(self, [Unwrap(self.camera_format) EXCEPT !.format = fourcc])
    ELSE {Return([self EXCEPT !.camera_format =
                        Some(CameraFormatNew(ResolutionNew(0, 0), fourcc, 0))],
                 Ok, <<>>, None)}

\* open_stream, lines 216-218: todo!() panics before anything is touched.
open_stream(self) == {Return(self, Panic, <<>>, None)}

\* open_stream as the specification describes it (Configured -> Streaming):
\* a stream session is created on the device as configured; a failure is
\* CouldntOpenStream and leaves the session as it was.
open_stream_spec(self) ==
    { LET c == <<OsCall("MmapStream::new", None, ok)>>
      IN  IF ok
          THEN Return([self EXCEPT !.stream_handle =
                             Some(MmapStreamNew(self.stream_handle))],
                      Ok, c, None)
          ELSE Return(self, CouldntOpenStream, c, None)
      : ok \in OsResults }

\* is_stream_open, lines 220-222.
is_stream_open == is_some(stream_handle)
\* get_camera_format, lines 77-79.
get_camera_format == camera_format

-----------------------------------------------------------------------------
\* Reading a handler's log of OS calls.
IssuedSet(calls) ==
    \E i \in 1..Len(calls) : calls[i].name \in {"set_format", "set_params"}
RollbackFailed(calls) ==
    \E i, j \in 1..Len(calls) :
        /\ i < j
        /\ calls[i].name = "MmapStream::new" /\ ~calls[i].ok
        /\ calls[j].name \in {"set_format", "set_params"} /\ ~calls[j].ok
\* The OS calls of a log without their arguments.
Path(calls) == [i \in 1..Len(calls) |-> [name |-> calls[i].name, ok |-> calls[i].ok]]

\* The callers of the session.
Callers == 1..MaxCallers

\* The return of a handler: the session takes the handler's outcome, the call
\* is recorded, and the history is brought up to date.
Record(op, r) ==
    /\ camera_format' = r.self.camera_format
    /\ stream_handle' = r.self.stream_handle
    /\ device' = r.self.device
    /\ last' = [op |-> op, kind |-> r.result.kind, calls |-> Path(r.calls)]
    /\ last_ok' = IF is_some(r.txn) /\ r.result = Ok THEN r.txn ELSE last_ok
    /\ pending' = IF r.txn = None /\ r.self.camera_format # camera_format
                  THEN r.self.camera_format
                  ELSE IF is_some(r.txn) /\ r.result = Ok THEN None ELSE pending
    /\ set_issued' = (set_issued \/ IssuedSet(r.calls))

\* One call of a handler from entry to return, with no other call inside it.
Do(op, r) == Record(op, r) /\ UNCHANGED running

\* V4LCaptureDevice::new, lines 63-68, on a device in any configuration.
Init ==
    /\ camera_format = None
    /\ stream_handle = None
    /\ device \in [format : Formats, params : Parameterss]
    /\ last = [op |-> "new", kind |-> "Ok", calls |-> <<>>]
    /\ last_ok = None
    /\ pending = None
    /\ set_issued = FALSE
    /\ running = [caller \in Callers |-> None]

SetCameraFormat ==
    \E new_fmt \in CameraFormats : \E r \in set_camera_format(Self, new_fmt) :
        Do("set_camera_format", r)
InitCameraFormatDefault ==
    \E overwrite \in BOOLEAN : \E r \in init_camera_format_default(Self, overwrite) :
        Do("init_camera_format_default", r)
SetResolution ==
    \E new_res \in Resolutions : \E r \in set_resolution(Self, new_res) :
        Do("set_resolution", r)
SetFramerate ==
    \E new_fps \in Framerates : \E r \in set_framerate(Self, new_fps) :
        Do("set_framerate", r)
SetFrameformat ==
    \E fourcc \in FrameFormats : \E r \in set_frameformat(Self, fourcc) :
        Do("set_frameformat", r)
OpenStream == \E r \in open_stream(Self) : Do("open_stream", r)
\* The specified open_stream, from the Configured state with no stream held.
OpenStreamSpec ==
    /\ is_some(camera_format)
    /\ ~is_some(stream_handle)
    /\ \E r \in open_stream_spec(Self) : Do("open_stream", r)

\* The program as written: open_stream is unimplemented.
Next == SetCameraFormat \/ InitCameraFormatDefault \/ SetResolution
            \/ SetFramerate \/ SetFrameformat \/ OpenStream
Spec == Init /\ [][Next]_vars

\* The program with open_stream as specified, for the claims about a session
\* that holds a stream.
NextStream == SetCameraFormat \/ InitCameraFormatDefault \/ SetResolution
                  \/ SetFramerate \/ SetFrameformat \/ OpenStreamSpec
SpecStream == Init /\ [][NextStream]_vars

-----------------------------------------------------------------------------
\* The session shared by several callers, each set_camera_format call
\* advancing one OS call at a time.

\* The formats the callers ask for.
SerialFormats == {CameraFormatDefault, CameraFormatNew(ResolutionNew(0, 0), "YUYV", 0)}

\* A receiver that does not exclude other calls (a shared borrow).
borrow_shared(holders) == TRUE

\* The receiver `&mut self`: the borrow is exclusive, so a call is entered
\* only while no call on the session is in progress.
borrow_mut(holders) == \A caller \in DOMAIN holders : holders[caller] = None

\* The effect of one OS call on the device.
OsEffect(dev, call) ==
    IF call.name = "set_format" THEN DeviceSetFormat(dev, call.arg, call.ok)
    ELSE IF call.name = "set_params" THEN DeviceSetParams(dev, call.arg, call.ok)
    ELSE dev

\* A caller enters set_camera_format and the transaction takes its snapshot
\* (lines 94-103): the format query is its first OS call.
Begin(caller) ==
    /\ running[caller] = None
    /\ borrow_mut(running)
    /\ \E new_fmt \in SerialFormats : \E r \in set_camera_format(Self, new_fmt) :
          running' = [running EXCEPT ![caller] = Some([run |-> r, pos |-> 1])]
    /\ UNCHANGED <<camera_format, stream_handle, device, last, last_ok, pending,
                   set_issued>>

\* The transaction issues its next OS call (lines 104-153).
Step(caller) ==
    /\ is_some(running[caller])
    /\ LET t == Unwrap(running[caller])
       IN  /\ t.pos < Len(t.run.calls)
           /\ device' = OsEffect(device, t.run.calls[t.pos + 1])
           /\ running' = [running EXCEPT ![caller] = Some([t EXCEPT !.pos = t.pos + 1])]
    /\ UNCHANGED <<camera_format, stream_handle, last, last_ok, pending, set_issued>>

\* The transaction returns (an Err arm, or lines 160-161), on the device as
\* the OS calls have left it.
End(caller) ==
    /\ is_some(running[caller])
    /\ LET t == Unwrap(running[caller])
       IN  /\ t.pos = Len(t.run.calls)
           /\ Record("set_camera_format", [t.run EXCEPT !.self.device = device])
    /\ running' = [running EXCEPT ![caller] = None]

\* open_stream as specified, which takes `&mut self` as well.
OpenStreamSerial == borrow_mut(running) /\ OpenStreamSpec

InitSerial == Init /\ device \in {[format |-> FormatFrom(f),
                                   params |-> ParametersWithFps(f.framerate)]
                                      : f \in SerialFormats}
NextSerial ==
    \/ \E caller \in Callers : Begin(caller)
    \/ \E caller \in Callers : Step(caller)
    \/ \E caller \in Callers : End(caller)
    \/ OpenStreamSerial
SpecSerial == InitSerial /\ [][NextSerial]_vars

-----------------------------------------------------------------------------
\* Reading a log of OS calls, of the last call or of an outcome.
LogNames(calls) == [i \in 1..Len(calls) |-> calls[i].name]
LogOks(calls) == [i \in 1..Len(calls) |-> calls[i].ok]
\* The call ran the set_camera_format transaction (only it queries the format).
TxnRan(calls) == calls # <<>> /\ calls[1].name = "format"
\* The transaction applied the new format and framerate, failed to recreate
\* the stream, and both set calls of the rollback succeeded.
RolledBack(calls) ==
    /\ LogNames(calls) = <<"format", "params", "set_format", "set_params",
                           "MmapStream::new", "set_format", "set_params">>
    /\ LogOks(calls) = <<TRUE, TRUE, TRUE, TRUE, FALSE, TRUE, TRUE>>
\* The OS-level configuration that a format describes.
DeviceOf(fmt) ==
    [format |-> FormatFrom(fmt), params |-> ParametersWithFps(fmt.framerate)]
MutatorOps == {"set_resolution", "set_framerate", "set_frameformat"}

C2_AllOrNothing ==
    [][ (TxnRan(last'.calls) /\ last'.kind # "Ok") => device' = device ]_vars

\* C3 (snapshot correctness): unless the cache holds a value that a mutator
\* stored directly (which no sequence of set_camera_format calls alone
\* brings about), get_camera_format returns the argument of the most recent
\* set_camera_format call that returned Ok, and None if none has.
C3_SnapshotCorrectness == pending = None => get_camera_format = last_ok
\* A call has failed, after applying its format, after an earlier one succeeded.
C3_Witness ==
    /\ pending = None
    /\ is_some(last_ok)
    /\ last.op = "set_camera_format"
    /\ last.kind = "CouldntSetProperty"
    /\ device # DeviceOf(Unwrap(last_ok))

CreatedAfterApply(calls) ==
    \E i, j, k \in 1..Len(calls) :
        /\ i < j /\ j < k
        /\ calls[i] = [name |-> "set_format", ok |-> TRUE]
        /\ calls[j] = [name |-> "set_params", ok |-> TRUE]
        /\ calls[k] = [name |-> "MmapStream::new", ok |-> TRUE]

C7_NoOpIdempotence ==
    is_some(camera_format) =>
        init_camera_format_default(Self, FALSE) = {Return(Self, Ok, <<>>, None)}
\* init_camera_format_default has returned without an OS call on a session
\* configured by a transaction.
C7_Witness ==
    /\ last.op = "init_camera_format_default"
    /\ last.kind = "Ok"
    /\ last.calls = <<>>
    /\ is_some(camera_format)
    /\ set_issued

\* The only outcome of a deferred configuration: Ok, no OS call, and the
\* session changed in its cache alone.
DeferredTo(fmt) ==
    {Return([Self EXCEPT !.camera_format = Some(fmt)], Ok, <<>>, None)}

SucceedsWith(outcomes, fmt) ==
    \A r \in outcomes :
        r.result = Ok => /\ r.self.camera_format = Some(fmt)
                         /\ r.self.device = DeviceOf(fmt)

\* C11 (single-field change): with a format cached and applied, a successful
\* set_resolution, set_framerate or set_frameformat leaves the cache equal to
\* the previous cached format with only the requested field replaced, and the
\* OS-level format and framerate at the values of that new cached format.
C11_SingleFieldChange ==
    \A F \in CameraFormats :
        (camera_format = Some(F) /\ device = DeviceOf(F)) =>
            /\ \A new_res \in Resolutions :
                  SucceedsWith(set_resolution(Self, new_res),
                               CameraFormatNew(new_res, F.format, F.framerate))
            /\ \A new_fps \in Framerates :
                  SucceedsWith(set_framerate(Self, new_fps),
                               CameraFormatNew(F.resolution, F.format, new_fps))
            /\ \A fourcc \in FrameFormats :
                  SucceedsWith(set_frameformat(Self, fourcc),
                               CameraFormatNew(F.resolution, fourcc, F.framerate))
\* A mutator has changed one field of a format that a transaction had cached
\* and applied.
C11_Witness ==
    /\ last.op \in MutatorOps
    /\ last.kind = "Ok"
    /\ TxnRan(last.calls)
    /\ is_some(camera_format)
    /\ camera_format = last_ok
    /\ camera_format # Some(CameraFormatDefault)
    /\ device = DeviceOf(Unwrap(camera_format))

\* C12 (Streaming is reachable): in the Configured state with no stream held,
\* open_stream can succeed, and its success leaves a stream session held
\* (is_stream_open() true), so that a freshly opened session reaches Streaming
\* by configuring it and opening the stream.
C12_StreamingReachable ==
    (is_some(camera_format) /\ ~is_some(stream_handle)) =>
        \E r \in open_stream(Self) : r.result = Ok /\ is_some(r.self.stream_handle)

\* C14 (snapshot query failure): in every outcome of set_camera_format where
\* the format query fails the result is CouldntQueryDevice with property
\* "Resolution, FrameFormat", and where the framerate query fails it is
\* CouldntQueryDevice with property "Framerate"; in both the failed query is
\* the last OS call (no set call, no stream creation) and the OS-level
\* configuration, the cache and the stream handle are unchanged.
C14_SnapshotQueryFailure ==
    \A new_fmt \in CameraFormats : \A r \in set_camera_format(Self, new_fmt) :
        /\ ~r.calls[1].ok =>
              /\ r.result = CouldntQueryDevice(<<"Resolution, FrameFormat">>)
              /\ r.calls = <<OsCall("format", None, FALSE)>>
              /\ r.self = Self
        /\ (Len(r.calls) >= 2 /\ ~r.calls[2].ok) =>
              /\ r.result = CouldntQueryDevice(<<"Framerate">>)
              /\ r.calls = <<OsCall("format", None, TRUE), OsCall("params", None, FALSE)>>
              /\ r.self = Self
\* The framerate query of a transaction has failed on a configured session.
C14_Witness ==
    /\ last.kind = "CouldntQueryDevice"
    /\ last.calls = <<[name |-> "format", ok |-> TRUE], [name |-> "params", ok |-> FALSE]>>
    /\ is_some(camera_format)
    /\ set_issued

\* The transaction's queries and format apply succeeded and its framerate
\* apply failed.
FramerateApplyFailed(calls) ==
    /\ Len(calls) >= 4
    /\ LogNames(SubSeq(calls, 1, 4)) = <<"format", "params", "set_format", "set_params">>
    /\ LogOks(SubSeq(calls, 1, 4)) = <<TRUE, TRUE, TRUE, FALSE>>

\* C15 (framerate apply failure): in every outcome of set_camera_format
\* where the format apply succeeded and the framerate apply failed, the
\* result is CouldntSetProperty with property "Framerate" and the new
\* parameters as value, the failed apply is the last OS call, the OS-level
\* resolution and encoding are the new ones, the OS-level framerate is the
\* one before the call, and the cache and the stream handle are unchanged.
C15_FramerateApplyFailure ==
    \A new_fmt \in CameraFormats : \A r \in set_camera_format(Self, new_fmt) :
        FramerateApplyFailed(r.calls) =>
            /\ r.result = CouldntSetProperty(<<"Framerate">>,
                    ParametersToString(ParametersWithFps(new_fmt.framerate)))
            /\ Len(r.calls) = 4
            /\ r.self.device = [format |-> FormatFrom(new_fmt), params |-> device.params]
            /\ r.self.camera_format = camera_format
            /\ r.self.stream_handle = stream_handle
\* A framerate apply has failed after a format apply that changed the
\* device, on a session configured by an earlier transaction.
C15_Witness ==
    /\ FramerateApplyFailed(last.calls)
    /\ last.kind = "CouldntSetProperty"
    /\ is_some(last_ok)
    /\ camera_format = last_ok
    /\ device.format # FormatFrom(Unwrap(last_ok))
    /\ device.params = ParametersWithFps(Unwrap(last_ok).framerate)

\* The OS operations of one set_camera_format(new_fmt) call on self in their
\* order: the two queries, the two applies of the new values, the stream
\* creation, and the two re-applies of the snapshot.
OrderedOps(self, new_fmt) ==
    << [name |-> "format", arg |-> None],
       [name |-> "params", arg |-> None],
       [name |-> "set_format", arg |-> FormatFrom(new_fmt)],
       [name |-> "set_params", arg |-> ParametersWithFps(new_fmt.framerate)],
       [name |-> "MmapStream::new", arg |-> None],
       [name |-> "set_format", arg |-> self.device.format],
       [name |-> "set_params", arg |-> self.device.params] >>

C17_DefaultIsTransaction ==
    /\ \A overwrite \in BOOLEAN :
          (camera_format = None \/ overwrite) =>
              /\ init_camera_format_default(Self, overwrite)
                     = set_camera_format(Self, CameraFormatDefault)
              /\ \A r \in init_camera_format_default(Self, overwrite) :
                    /\ r.txn = Some(CameraFormatDefault)
                    /\ r.result = Ok => /\ r.self.camera_format = Some(CameraFormatDefault)
                                        /\ r.self.device = DeviceOf(CameraFormatDefault)
    /\ is_some(camera_format) =>
          \A r \in init_camera_format_default(Self, FALSE) :
              r.result = Ok /\ r.self.camera_format = camera_format
\* init_camera_format_default has run the transaction and left the system
\* default cached and applied.
C17_Witness ==
    /\ last.op = "init_camera_format_default"
    /\ last.kind = "Ok"
    /\ TxnRan(last.calls)
    /\ camera_format = Some(CameraFormatDefault)
    /\ last_ok = Some(CameraFormatDefault)
    /\ device = DeviceOf(CameraFormatDefault)

ConfigurationOutcomes ==
    UNION { UNION {set_camera_format(Self, new_fmt) : new_fmt \in CameraFormats},
            UNION {init_camera_format_default(Self, overwrite) : overwrite \in BOOLEAN},
            UNION {set_resolution(Self, new_res) : new_res \in Resolutions},
            UNION {set_framerate(Self, new_fps) : new_fps \in Framerates},
            UNION {set_frameformat(Self, fourcc) : fourcc \in FrameFormats} }

\* C19 (no stream of its own): with no stream session held, every outcome of
\* set_camera_format, of the three mutators and of
\* init_camera_format_default, whatever its result, leaves no stream
\* session held and has issued no stream-creation OS call.
C19_NeverOpensStream ==
    stream_handle = None =>
        \A r \in ConfigurationOutcomes :
            /\ r.self.stream_handle = None
            /\ \A i \in 1..Len(r.calls) : r.calls[i].name # "MmapStream::new"
\* A mutator's transaction has succeeded, in four OS calls, on a session
\* that holds no stream.
C19_Witness ==
    /\ last.op \in MutatorOps
    /\ last.kind = "Ok"
    /\ LogNames(last.calls) = <<"format", "params", "set_format", "set_params">>
    /\ ~is_stream_open

====
